---- MODULE Spec2Model ----
(***************************************************************************)
(* Model of src/main.py: a tree of network hosts and their hardware, kept  *)
(* as Python objects that refer to each other, with a recursive text       *)
(* renderer (_render / draw), a deep copy (clone) and a search by host     *)
(* name (find_host).                                                       *)
(*                                                                         *)
(* Objects live in a heap: a function from object identities to records.   *)
(* A child collection is a sequence of object identities (Python lists     *)
(* hold references), so the same object can be held by several lists.      *)
(* Text is a sequence of one-character strings.                            *)
(***************************************************************************)
EXTENDS Integers, Sequences, FiniteSets, TLC

VARIABLES heap, log, cloned, ret

vars == <<heap, log, cloned, ret>>

(***************************************************************************)
(* Bounds of the exploration.                                              *)
(***************************************************************************)
\* objects and list entries the construction machine may allocate
MaxSize == 5
\* longest child collection of the trees the renderer is applied to
MaxKids == 2
\* most hosts of the networks the renderer is applied to
MaxHosts == 2

(***************************************************************************)
(* Scalar values the callers pass.                                         *)
(***************************************************************************)
Names == {<<"a">>, <<"A">>}
Titles == {<<"T">>}
Ips == {<<"1">>, <<"2">>}
Roles == {<<"s">>}
CoreCounts == {4}
Clocks == {2500}
MemSizes == {16000}
DiskSizes == {2000}
PartIndexes == {0, 1}
PartSizes == {500}

None == <<"None", 0>>

(***************************************************************************)
(* Text.                                                                   *)
(***************************************************************************)
DecDigits == <<"0", "1", "2", "3", "4", "5", "6", "7", "8", "9">>

RECURSIVE Dec(_)
\* f"{n}" for an int: decimal digits, most significant first
Dec(n) ==
  IF n < 0 THEN <<"-">> \o Dec(0 - n)
  ELSE IF n < 10 THEN <<DecDigits[n + 1]>>
  ELSE Dec(n \div 10) \o <<DecDigits[(n % 10) + 1]>>

\* '\\-' if is_last else '+-'
Connector(is_last) == IF is_last THEN <<"\\", "-">> ELSE <<"+", "-">>

\* a continuation bar under every composite, last or not
SubPrefixAlwaysBar(prefix, is_last) == prefix \o <<"|", " ">>

\* prefix + ("  " if is_last else "| ")
SubPrefix(prefix, is_last) ==
  prefix \o (IF is_last THEN <<" ", " ">> ELSE <<"|", " ">>)

(***************************************************************************)
(* Constructors: the record an __init__ leaves behind.                     *)
(***************************************************************************)
Cpu(cores, mhz) == [kind |-> "Cpu", cores |-> cores, mhz |-> mhz]

Memory(mib) == [kind |-> "Memory", mib |-> mib]

Partition(index, gib, role) ==
  [kind |-> "Partition", index |-> index, gib |-> gib, role |-> role]

Disk(gib) == [kind |-> "Disk", gib |-> gib, parts |-> <<>>]

Host(name) == [kind |-> "Host", name |-> name, addrs |-> <<>>, hw |-> <<>>]

Network(title) == [kind |-> "Network", title |-> title, hosts |-> <<>>]

HwKinds == {"Cpu", "Memory", "Disk"}

\* the child collection(s) of an object, as one sequence of identities
Children(o) ==
  CASE o.kind = "Network" -> o.hosts
    [] o.kind = "Host" -> o.hw
    [] o.kind = "Disk" -> o.parts
    [] OTHER -> <<>>

Range(s) == {s[i] : i \in DOMAIN s}

\* the storage of an object: itself and the entries of its lists
SizeOf(o) ==
  1 + Len(Children(o)) + (IF o.kind = "Host" THEN Len(o.addrs) ELSE 0)

RECURSIVE SumSizes(_, _)
SumSizes(h, S) ==
  IF S = {} THEN 0
  ELSE LET o == CHOOSE x \in S : TRUE
       IN  SizeOf(h[o]) + SumSizes(h, S \ {o})

RECURSIVE Reach(_, _)
\* the objects reachable from n through child collections, n included
Reach(h, n) ==
  {n} \cup UNION {Reach(h, c) : c \in Range(Children(h[n]))}

(***************************************************************************)
(* Rendering.                                                              *)
(***************************************************************************)
RECURSIVE _render(_, _, _, _)

Cpu_render(h, n, prefix, is_last) ==
  << prefix \o Connector(is_last) \o <<"C", "P", "U", ",", " ">>
       \o Dec(h[n].cores) \o <<" ", "c", "o", "r", "e", "s", " ", "@", " ">>
       \o Dec(h[n].mhz) \o <<"M", "H", "z">> >>

Memory_render(h, n, prefix, is_last) ==
  << prefix \o Connector(is_last) \o <<"M", "e", "m", "o", "r", "y", ",", " ">>
       \o Dec(h[n].mib) \o <<" ", "M", "i", "B">> >>

Partition_render(h, n, prefix, is_last) ==
  << prefix \o Connector(is_last) \o <<"[">> \o Dec(h[n].index)
       \o <<"]", ":", " ">> \o Dec(h[n].gib) \o <<" ", "G", "i", "B", ",", " ">>
       \o h[n].role >>

RECURSIVE RenderEachButLast(_, _, _, _)
\* the loop stopping one item early
RenderEachButLast(h, items, sub, i) ==
  IF i >= Len(items) THEN <<>>
  ELSE _render(h, items[i], sub, FALSE) \o RenderEachButLast(h, items, sub, i + 1)

RECURSIVE RenderEach(_, _, _, _)
\* for i, p in enumerate(items): yield from p._render(sub, i == len(items) - 1)
\* from index i on
RenderEach(h, items, sub, i) ==
  IF i > Len(items) THEN <<>>
  ELSE _render(h, items[i], sub, i = Len(items)) \o RenderEach(h, items, sub, i + 1)

Disk_render(h, n, prefix, is_last) ==
  << prefix \o Connector(is_last) \o <<"H", "D", "D", ",", " ">>
       \o Dec(h[n].gib) \o <<" ", "G", "i", "B">> >>
  \o RenderEach(h, h[n].parts, SubPrefix(prefix, is_last), 1)

\* the address loop taking the addresses as a sibling group of their own
AddrLinesOwnGroup(addrs, hw, sub) ==
  [i \in 1 .. Len(addrs) |-> sub \o Connector(i = Len(addrs)) \o addrs[i]]

\* the address loop of Host._render: Python index idx = i - 1
AddrLines(addrs, hw, sub) ==
  LET total == Len(addrs) + Len(hw)
  IN  [i \in 1 .. Len(addrs) |->
         LET last_here == (i - 1 = total - 1) /\ (hw = <<>>)
         IN  sub \o Connector(last_here) \o addrs[i]]

RECURSIVE RenderHwMerged(_, _, _, _, _)
\* the hardware loop comparing jdx with total - 1 instead of len(hw) - 1
RenderHwMerged(h, items, sub, i, total) ==
  IF i > Len(items) THEN <<>>
  ELSE _render(h, items[i], sub, i - 1 = total - 1)
       \o RenderHwMerged(h, items, sub, i + 1, total)

Host_renderMergedIndex(h, n, prefix, is_last) ==
  << prefix \o Connector(is_last) \o <<"H", "o", "s", "t", ":", " ">>
       \o h[n].name >>
  \o AddrLines(h[n].addrs, h[n].hw, SubPrefix(prefix, is_last))
  \o RenderHwMerged(h, h[n].hw, SubPrefix(prefix, is_last), 1,
                    Len(h[n].addrs) + Len(h[n].hw))

Host_render(h, n, prefix, is_last) ==
  << prefix \o Connector(is_last) \o <<"H", "o", "s", "t", ":", " ">>
       \o h[n].name >>
  \o AddrLines(h[n].addrs, h[n].hw, SubPrefix(prefix, is_last))
  \o RenderEach(h, h[n].hw, SubPrefix(prefix, is_last), 1)

Network_render(h, n, prefix, is_last) ==
  << <<"N", "e", "t", "w", "o", "r", "k", ":", " ">> \o h[n].title >>
  \o RenderEach(h, h[n].hosts, <<>>, 1)

_render(h, n, prefix, is_last) ==
  CASE h[n].kind = "Cpu" -> Cpu_render(h, n, prefix, is_last)
    [] h[n].kind = "Memory" -> Memory_render(h, n, prefix, is_last)
    [] h[n].kind = "Partition" -> Partition_render(h, n, prefix, is_last)
    [] h[n].kind = "Disk" -> Disk_render(h, n, prefix, is_last)
    [] h[n].kind = "Host" -> Host_render(h, n, prefix, is_last)
    [] h[n].kind = "Network" -> Network_render(h, n, prefix, is_last)

RECURSIVE JoinLines(_)
\* buf.write(line + "\n") for each line
JoinLines(lines) ==
  IF lines = <<>> THEN <<>>
  ELSE Head(lines) \o <<"\n">> \o JoinLines(Tail(lines))

\* "\n".join(lines): no newline after the final line
drawJoined(h, n) ==
  LET t == JoinLines(_render(h, n, <<>>, TRUE))
  IN  SubSeq(t, 1, Len(t) - 1)

draw(h, n) == JoinLines(_render(h, n, <<>>, TRUE))

(***************************************************************************)
(* Search.                                                                 *)
(***************************************************************************)
RECURSIVE FindFromLast(_, _, _, _)
\* the scan that keeps going after a match, so that the last match wins
FindFromLast(h, hosts, fqdn, i) ==
  IF i > Len(hosts) THEN None
  ELSE LET later == FindFromLast(h, hosts, fqdn, i + 1)
       IN  IF later # None THEN later
           ELSE IF h[hosts[i]].name = fqdn THEN hosts[i]
           ELSE None

RECURSIVE FindFrom(_, _, _, _)
\* for h in self.hosts: if h.name == fqdn: return h  -- from index i on
FindFrom(h, hosts, fqdn, i) ==
  IF i > Len(hosts) THEN None
  ELSE IF h[hosts[i]].name = fqdn THEN hosts[i]
  ELSE FindFrom(h, hosts, fqdn, i + 1)

find_host(h, n, fqdn) == FindFrom(h, h[n].hosts, fqdn, 1)

(***************************************************************************)
(* Deep copy.                                                              *)
(***************************************************************************)
\* the highest number an object of kind k has in heap h, 0 when there is none
Top(h, k) ==
  LET used == {o[2] : o \in {x \in DOMAIN h : x[1] = k}}
  IN  IF used = {} THEN 0 ELSE CHOOSE m \in used : \A u \in used : u <= m

\* the fresh identity deepcopy gives each object reachable from n: one per
\* object, however many lists hold it (deepcopy's memo)
Memo(h, n) ==
  LET R == Reach(h, n)
  IN  [o \in R |->
         <<o[1], Top(h, o[1])
                   + Cardinality({p \in R : p[1] = o[1] /\ p[2] <= o[2]})>>]

MapSeq(s, m) == [i \in DOMAIN s |-> m[s[i]]]

\* a copy that leaves the partitions of a disk behind
CopyObjNoParts(o, m) ==
  CASE o.kind = "Network" -> [o EXCEPT !.hosts = MapSeq(@, m)]
    [] o.kind = "Host" -> [o EXCEPT !.hw = MapSeq(@, m)]
    [] o.kind = "Disk" -> [o EXCEPT !.parts = <<>>]
    [] OTHER -> o

\* the copy of one object: scalars by value, child lists re-pointed
CopyObj(o, m) ==
  CASE o.kind = "Network" -> [o EXCEPT !.hosts = MapSeq(@, m)]
    [] o.kind = "Host" -> [o EXCEPT !.hw = MapSeq(@, m)]
    [] o.kind = "Disk" -> [o EXCEPT !.parts = MapSeq(@, m)]
    [] OTHER -> o

\* the heap after copy.deepcopy(n)
DeepCopy(h, n) ==
  LET m == Memo(h, n)
      new == {m[o] : o \in DOMAIN m}
  IN  [id \in DOMAIN h \cup new |->
         IF id \in DOMAIN h THEN h[id]
         ELSE CopyObj(h[CHOOSE o \in DOMAIN m : m[o] = id], m)]

(***************************************************************************)
(* The construction machine: what a caller can do, one call per step.      *)
(***************************************************************************)
\* ret holds the last search or rendering call and what it returned
NoCall == [op |-> "none"]

HeapSize == SumSizes(heap, DOMAIN heap)

OfKind(k) == {n \in DOMAIN heap : heap[n].kind = k}

Hardware == {n \in DOMAIN heap : heap[n].kind \in HwKinds}

\* the identity of a new object: its kind and its number among that kind
NextId(k) == <<k, Top(heap, k) + 1>>

Alloc(o) ==
  LET new == NextId(o.kind)
  IN  /\ heap' = [id \in DOMAIN heap \cup {new} |->
                    IF id = new THEN o ELSE heap[id]]
      /\ log' = [id \in DOMAIN log \cup {new} |->
                   IF id = new THEN <<>> ELSE log[id]]
      /\ ret' = NoCall
      /\ UNCHANGED cloned

NewCpu == \E c \in CoreCounts, m \in Clocks : Alloc(Cpu(c, m))

NewMemory == \E m \in MemSizes : Alloc(Memory(m))

NewPartition ==
  \E i \in PartIndexes, g \in PartSizes, r \in Roles : Alloc(Partition(i, g, r))

NewDisk == \E g \in DiskSizes : Alloc(Disk(g))

NewHost == \E nm \in Names : Alloc(Host(nm))

NewNetwork == \E t \in Titles : Alloc(Network(t))

\* the calls made on an object built by a constructor, in call order
Logged(self, op, item) ==
  log' = IF self \in DOMAIN log
         THEN [log EXCEPT ![self] = Append(@, <<op, item>>)]
         ELSE log

add_part(self, part) ==
  /\ heap' = [heap EXCEPT ![self].parts = Append(@, part)]
  /\ Logged(self, "add_part", part)
  /\ ret' = NoCall
  /\ UNCHANGED cloned

add_addr(self, ip) ==
  /\ heap' = [heap EXCEPT ![self].addrs = Append(@, ip)]
  /\ Logged(self, "add_addr", ip)
  /\ ret' = NoCall
  /\ UNCHANGED cloned

add_hw(self, comp) ==
  /\ heap' = [heap EXCEPT ![self].hw = Append(@, comp)]
  /\ Logged(self, "add_hw", comp)
  /\ ret' = NoCall
  /\ UNCHANGED cloned

\* self.hosts.insert(0, h)
add_hostFront(self, h) ==
  /\ heap' = [heap EXCEPT ![self].hosts = <<h>> \o @]
  /\ Logged(self, "add_host", h)
  /\ ret' = NoCall
  /\ UNCHANGED cloned

add_host(self, h) ==
  /\ heap' = [heap EXCEPT ![self].hosts = Append(@, h)]
  /\ Logged(self, "add_host", h)
  /\ ret' = NoCall
  /\ UNCHANGED cloned

\* copy_net.hosts[0].name = "edited"
set_name(self, name) ==
  /\ heap' = [heap EXCEPT ![self].name = name]
  /\ ret' = NoCall
  /\ UNCHANGED <<log, cloned>>

clone(self) ==
  /\ heap' = DeepCopy(heap, self)
  /\ cloned' = <<self, Memo(heap, self)[self]>>
  /\ ret' = NoCall
  /\ UNCHANGED log

CallFindHost(self, fqdn) ==
  /\ ret' = [op |-> "find_host", self |-> self, arg |-> fqdn,
             val |-> find_host(heap, self, fqdn)]
  /\ UNCHANGED <<heap, log, cloned>>

CallDraw(self) ==
  /\ ret' = [op |-> "draw", self |-> self, val |-> draw(heap, self)]
  /\ UNCHANGED <<heap, log, cloned>>

Init ==
  /\ heap = [o \in {} |-> None]
  /\ log = [o \in {} |-> <<>>]
  /\ cloned = <<>>
  /\ ret = NoCall

\* room for one more object or list entry
Room == HeapSize < MaxSize

Next ==
  \/ Room /\ NewCpu
  \/ Room /\ NewMemory
  \/ Room /\ NewPartition
  \/ Room /\ NewDisk
  \/ Room /\ NewHost
  \/ Room /\ NewNetwork
  \/ Room /\ \E d \in OfKind("Disk"), p \in OfKind("Partition") : add_part(d, p)
  \/ Room /\ \E h \in OfKind("Host"), ip \in Ips : add_addr(h, ip)
  \/ Room /\ \E h \in OfKind("Host"), c \in Hardware : add_hw(h, c)
  \/ Room /\ \E n \in OfKind("Network"), h \in OfKind("Host") : add_host(n, h)
  \/ \E h \in OfKind("Host"), nm \in Names : set_name(h, nm)
  \/ \E n \in DOMAIN heap :
       /\ HeapSize + SumSizes(heap, Reach(heap, n)) <= MaxSize
       /\ clone(n)
  \/ \E n \in OfKind("Network"), nm \in Names : CallFindHost(n, nm)

Spec == Init /\ [][Next]_vars

(***************************************************************************)
(* The renderer applied to trees a caller built: every network of up to    *)
(* MaxHosts hosts, each with up to MaxKids addresses and up to MaxKids     *)
(* hardware items of any kinds, each disk with up to MaxKids partitions.   *)
(***************************************************************************)
HostShapes ==
  [na : 0 .. MaxKids,
   hw : UNION {[1 .. m -> HwKinds] : m \in 0 .. MaxKids},
   np : 0 .. MaxKids]

\* the slot of hardware item j of host i, and of partition k of that item
HwSlot(i, j) == (i - 1) * MaxKids + j
PartSlot(i, j, k) == (HwSlot(i, j) - 1) * MaxKids + k

\* a host nothing was added to
BareHost == [na |-> 0, hw |-> <<>>, np |-> 0]

\* the heap after building a network of nh hosts in the way of the driver:
\* Host(..), add_addr.., add_hw.., Disk(..), add_part.., add_host.  The
\* first host has shape sh; the others have it too, or are all bare.
Built(nh, sh, same) ==
  LET shape(i) == IF i = 1 \/ same THEN sh ELSE BareHost
      owner(slot) == ((slot - 1) \div MaxKids) + 1
      hostIds == {<<"Host", i>> : i \in 1 .. nh}
      hwIds == UNION {{<<shape(i).hw[j], HwSlot(i, j)>> : j \in DOMAIN shape(i).hw} :
                        i \in 1 .. nh}
      partIds == UNION {{<<"Partition", PartSlot(i, j, k)>> :
                           j \in {x \in DOMAIN shape(i).hw : shape(i).hw[x] = "Disk"},
                           k \in 1 .. shape(i).np} :
                          i \in 1 .. nh}
      ids == {<<"Network", 1>>} \cup hostIds \cup hwIds \cup partIds
      obj(o) ==
        CASE o[1] = "Network" ->
               [Network(<<"T">>) EXCEPT !.hosts = [i \in 1 .. nh |-> <<"Host", i>>]]
          [] o[1] = "Host" ->
               [Host(<<"h">> \o Dec(o[2])) EXCEPT
                  !.addrs = [a \in 1 .. shape(o[2]).na |-> <<"i", "p">> \o Dec(a)],
                  !.hw = [j \in DOMAIN shape(o[2]).hw |->
                            <<shape(o[2]).hw[j], HwSlot(o[2], j)>>]]
          [] o[1] = "Cpu" -> Cpu(4, 2500)
          [] o[1] = "Memory" -> Memory(16000)
          [] o[1] = "Disk" ->
               [Disk(2000) EXCEPT
                  !.parts = [k \in 1 .. shape(owner(o[2])).np |->
                               <<"Partition", (o[2] - 1) * MaxKids + k>>]]
          [] o[1] = "Partition" ->
               Partition((o[2] - 1) % MaxKids, 500, <<"s">>)
  IN  [o \in ids |-> obj(o)]

Prefixes == {<<>>, <<"|", " ">>, <<" ", " ">>}

Call_render(self, prefix, is_last) ==
  /\ ret' = [op |-> "_render", self |-> self, prefix |-> prefix,
             is_last |-> is_last, val |-> _render(heap, self, prefix, is_last)]
  /\ UNCHANGED <<heap, log, cloned>>

InitRender ==
  /\ \E nh \in 0 .. MaxHosts, sh \in HostShapes, same \in BOOLEAN :
       heap = Built(nh, sh, same)
  /\ log = [o \in {} |-> <<>>]
  /\ cloned = <<>>
  /\ ret = NoCall

\* Rendering changes nothing, so a call made right after another returns
\* what it returns when made first: each tree is rendered from the state
\* that built it, before and after it is cloned.
Fresh == ret = NoCall

NextRender ==
  \/ Fresh /\ \E n \in DOMAIN heap, p \in Prefixes, l \in BOOLEAN :
                Call_render(n, p, l)
  \/ Fresh /\ \E n \in DOMAIN heap : CallDraw(n)
  \/ cloned = <<>> /\ \E n \in OfKind("Network") : clone(n)

SpecRender == InitRender /\ [][NextRender]_vars

(***************************************************************************)
(* Vocabulary of the properties.                                           *)
(***************************************************************************)
LastConn == <<"\\", "-">>
MidConn == <<"+", "-">>
BlankCell == <<" ", " ">>
BarCell == <<"|", " ">>

IsPrefixOf(p, s) == Len(p) <= Len(s) /\ SubSeq(s, 1, Len(p)) = p

\* the two characters of a line after its first col characters
ConnAt(line, col) == SubSeq(line, col + 1, col + 2)

\* what follows the connector
BodyAt(line, col) == SubSeq(line, col + 3, Len(line))

RECURSIVE SplitLines(_)
\* the lines of a text, cut after each newline
SplitLines(t) ==
  IF t = <<>> THEN <<>>
  ELSE IF \E k \in DOMAIN t : t[k] = "\n"
       THEN LET k == CHOOSE i \in DOMAIN t :
                       t[i] = "\n" /\ \A j \in 1 .. i - 1 : t[j] # "\n"
            IN  <<SubSeq(t, 1, k - 1)>> \o SplitLines(SubSeq(t, k + 1, Len(t)))
       ELSE <<t>>

\* the children of a node in render order: a Host's addresses, then its
\* hardware; an address is a child that is no node
Kids(h, n) ==
  LET o == h[n]
  IN  (IF o.kind = "Host"
       THEN [i \in DOMAIN o.addrs |-> [node |-> None, text |-> o.addrs[i]]]
       ELSE <<>>)
      \o [i \in DOMAIN Children(o) |-> [node |-> Children(o)[i], text |-> <<>>]]

RECURSIVE Descendants(_, _)
RECURSIVE DescendantsFrom(_, _, _)
\* how many descendants a node has, addresses included, each counted once
\* for each list entry that leads to it
Descendants(h, n) == DescendantsFrom(h, Kids(h, n), 1)

DescendantsFrom(h, kids, k) ==
  IF k > Len(kids) THEN 0
  ELSE 1 + (IF kids[k].node = None THEN 0 ELSE Descendants(h, kids[k].node))
         + DescendantsFrom(h, kids, k + 1)

RECURSIVE KidStart(_, _, _)
\* where the first line of child k stands among the lines rendered for n
KidStart(h, n, k) ==
  IF k = 1 THEN 2
  ELSE LET prev == Kids(h, n)[k - 1]
       IN  KidStart(h, n, k - 1) + 1
             + (IF prev.node = None THEN 0 ELSE Descendants(h, prev.node))

\* the lines rendered for child k of n, taken out of the lines rendered for n
KidBlock(h, n, lines, k) ==
  LET kid == Kids(h, n)[k]
      size == 1 + (IF kid.node = None THEN 0 ELSE Descendants(h, kid.node))
  IN  SubSeq(lines, KidStart(h, n, k), KidStart(h, n, k) + size - 1)

Rendered == ret.op = "_render"
Drawn == ret.op = "draw"
Composite(o) == o.kind \in {"Network", "Host", "Disk"}

\* the prefix the children of the rendered node are given
ChildPrefix == ret.prefix \o (IF ret.is_last THEN BlankCell ELSE BarCell)

(***************************************************************************)
(* C5  Host last-sibling rule.  When a Host is rendered, its address lines *)
(* come first, in order, and the address at idx has the connector \- iff  *)
(* it is the final address and the host has no hardware, else +-; then     *)
(* each hardware item jdx is rendered with is_last true iff jdx is the     *)
(* last index of the hardware list, whatever the number of addresses.      *)
(***************************************************************************)
C5_HostLastSibling ==
  (Rendered /\ heap[ret.self].kind = "Host") =>
    LET o == heap[ret.self]
        na == Len(o.addrs)
        nw == Len(o.hw)
        col == Len(ChildPrefix)
    IN  /\ Len(ret.val) = 1 + Descendants(heap, ret.self)
        /\ \A i \in 1 .. na :
             /\ IsPrefixOf(ChildPrefix, ret.val[1 + i])
             /\ BodyAt(ret.val[1 + i], col) = o.addrs[i]
             /\ ConnAt(ret.val[1 + i], col) =
                  (IF i = na /\ nw = 0 THEN LastConn ELSE MidConn)
        /\ \A j \in 1 .. nw :
             KidBlock(heap, ret.self, ret.val, na + j) =
               _render(heap, o.hw[j], ChildPrefix, j = nw)

C5_Witness ==
  /\ Rendered
  /\ heap[ret.self].kind = "Host"
  /\ Len(heap[ret.self].addrs) = 2
  /\ Len(heap[ret.self].hw) = 2
  /\ ConnAt(ret.val[3], Len(ChildPrefix)) = MidConn
  /\ ConnAt(ret.val[Len(ret.val)], Len(ChildPrefix)) = LastConn

(***************************************************************************)
(* C10  Merged-list equivalence.  The connectors Host._render gives its    *)
(* children are those of a renderer that takes addresses and hardware as   *)
(* one sibling list and marks only its final element as last; so in every  *)
(* non-empty sibling group (hosts of a Network, children of a Host,        *)
(* partitions of a Disk) exactly the last child in render order has \-    *)
(* and every earlier one has +-.                                           *)
(***************************************************************************)
C10_MergedList ==
  (Rendered /\ Composite(heap[ret.self])) =>
    LET kids == Kids(heap, ret.self)
        col == IF heap[ret.self].kind = "Network" THEN 0 ELSE Len(ChildPrefix)
    IN  \A k \in 1 .. Len(kids) :
          ConnAt(ret.val[KidStart(heap, ret.self, k)], col) =
            (IF k = Len(kids) THEN LastConn ELSE MidConn)

C10_Witness ==
  /\ Rendered
  /\ heap[ret.self].kind = "Host"
  /\ Len(heap[ret.self].addrs) = 2
  /\ heap[ret.self].hw = <<>>
  /\ ConnAt(ret.val[2], Len(ChildPrefix)) = MidConn
  /\ ConnAt(ret.val[3], Len(ChildPrefix)) = LastConn

RECURSIVE CellsBelow(_, _, _)
RECURSIVE CellsFrom(_, _, _, _)
\* for each line below n in render order, the cells it has to start with,
\* pre being the cells of the children of n
CellsBelow(h, n, pre) == CellsFrom(h, Kids(h, n), pre, 1)

CellsFrom(h, kids, pre, k) ==
  IF k > Len(kids) THEN <<>>
  ELSE <<pre>>
       \o (IF kids[k].node = None THEN <<>>
           ELSE CellsBelow(h, kids[k].node,
                           pre \o (IF k = Len(kids) THEN BlankCell ELSE BarCell)))
       \o CellsFrom(h, kids, pre, k + 1)

(***************************************************************************)
(* C6  Child prefix rule.  Every line below a Disk or Host rendered with   *)
(* (prefix, is_last) starts with prefix + "  " when is_last and with       *)
(* prefix + "| " otherwise; so in draw(network) a line at depth d below a  *)
(* host starts with exactly d two-character cells and then its connector,  *)
(* the k-th cell being "| " iff the ancestor at level k is not the last of *)
(* its siblings and "  " iff it is.                                        *)
(***************************************************************************)
C6_ChildPrefix ==
  /\ (Rendered /\ heap[ret.self].kind \in {"Host", "Disk"}) =>
       \A i \in 2 .. Len(ret.val) : IsPrefixOf(ChildPrefix, ret.val[i])
  /\ (Drawn /\ heap[ret.self].kind = "Network") =>
       LET lines == SplitLines(ret.val)
           cells == CellsBelow(heap, ret.self, <<>>)
       IN  /\ Len(lines) = 1 + Len(cells)
           /\ \A i \in DOMAIN cells :
                /\ IsPrefixOf(cells[i], lines[i + 1])
                /\ ConnAt(lines[i + 1], Len(cells[i])) \in {LastConn, MidConn}

C6_Witness ==
  /\ Drawn
  /\ heap[ret.self].kind = "Network"
  /\ Len(heap[ret.self].hosts) = 2
  /\ \E l \in DOMAIN SplitLines(ret.val) :
       IsPrefixOf(BarCell \o BarCell \o LastConn, SplitLines(ret.val)[l])
  /\ \E l \in DOMAIN SplitLines(ret.val) :
       IsPrefixOf(BlankCell \o BlankCell \o MidConn, SplitLines(ret.val)[l])

(***************************************************************************)
(* C7  Network rendering.  draw() of a Network is text whose first line is *)
(* exactly "Network: <title>", followed by each host in hosts order        *)
(* rendered with the empty prefix and with the connector \- iff it is the *)
(* last element of hosts; every line, the final one too, ends in a newline.*)
(***************************************************************************)
C7_NetworkDraw ==
  (Drawn /\ heap[ret.self].kind = "Network") =>
    LET o == heap[ret.self]
        lines == SplitLines(ret.val)
        nh == Len(o.hosts)
    IN  /\ ret.val[Len(ret.val)] = "\n"
        /\ Len(SelectSeq(ret.val, LAMBDA c : c = "\n")) = Len(lines)
        /\ Len(lines) = 1 + Descendants(heap, ret.self)
        /\ lines[1] = <<"N", "e", "t", "w", "o", "r", "k", ":", " ">> \o o.title
        /\ \A i \in 1 .. nh :
             /\ KidBlock(heap, ret.self, lines, i) =
                  _render(heap, o.hosts[i], <<>>, i = nh)
             /\ lines[KidStart(heap, ret.self, i)] =
                  (IF i = nh THEN LastConn ELSE MidConn)
                    \o <<"H", "o", "s", "t", ":", " ">> \o heap[o.hosts[i]].name

C7_Witness ==
  /\ Drawn
  /\ heap[ret.self].kind = "Network"
  /\ Len(heap[ret.self].hosts) = 2
  /\ Len(SplitLines(ret.val)) > 3
  /\ IsPrefixOf(MidConn, SplitLines(ret.val)[2])

(***************************************************************************)
(* C8  Empty collections.  A Host with no addresses and no hardware        *)
(* renders the one line "Host: <name>" behind its prefix and connector, a  *)
(* Disk with no partitions only its "HDD, <gib> GiB" line, a Network with  *)
(* no hosts only "Network: <title>"; in general a node renders 1 line plus *)
(* one for each of its descendants, addresses included.                    *)
(***************************************************************************)
C8_LineCount ==
  Rendered =>
    LET o == heap[ret.self]
        own == ret.prefix \o (IF ret.is_last THEN LastConn ELSE MidConn)
    IN  /\ Len(ret.val) = 1 + Descendants(heap, ret.self)
        /\ (o.kind = "Host" /\ o.addrs = <<>> /\ o.hw = <<>>) =>
             ret.val = << own \o <<"H", "o", "s", "t", ":", " ">> \o o.name >>
        /\ (o.kind = "Disk" /\ o.parts = <<>>) =>
             ret.val = << own \o <<"H", "D", "D", ",", " ">> \o Dec(o.gib)
                              \o <<" ", "G", "i", "B">> >>
        /\ (o.kind = "Network" /\ o.hosts = <<>>) =>
             ret.val = << <<"N", "e", "t", "w", "o", "r", "k", ":", " ">>
                            \o o.title >>

C8_Witness ==
  /\ Rendered
  /\ heap[ret.self].kind = "Host"
  /\ heap[ret.self].addrs = <<>>
  /\ heap[ret.self].hw = <<>>
  /\ ~ret.is_last
  /\ Len(ret.val) = 1

(***************************************************************************)
(* C2  Round-trip shape.  With neither tree changed since the clone, the   *)
(* text draw() gives for the clone of a Network is, character for          *)
(* character, the text draw() gives for the Network.                       *)
(***************************************************************************)
C2_RoundTrip ==
  (Drawn /\ cloned # <<>>) =>
    (ret.self = cloned[2] => ret.val = draw(heap, cloned[1]))

C2_Witness ==
  /\ Drawn
  /\ cloned # <<>>
  /\ ret.self = cloned[2]
  /\ Len(heap[cloned[1]].hosts) = 2
  /\ Len(SplitLines(ret.val)) >= 9

Searched == ret.op = "find_host"

Matches == {i \in DOMAIN heap[ret.self].hosts :
              heap[heap[ret.self].hosts[i]].name = ret.arg}

\* what a search has to return
C3_Result ==
  Searched =>
    /\ (ret.val = None) <=> (Matches = {})
    /\ Matches # {} =>
         \E i \in Matches :
           /\ \A j \in Matches : i <= j
           /\ ret.val = heap[ret.self].hosts[i]
           /\ ret.val \in DOMAIN heap

(***************************************************************************)
(* C3  Search.  find_host returns the host at the smallest index of        *)
(* network.hosts whose name equals the query exactly, and None exactly     *)
(* when no host's name equals it; what it returns is the object held in    *)
(* network.hosts, and the call changes nothing.                            *)
(***************************************************************************)
C3_Search ==
  /\ []C3_Result
  /\ [][Searched' => (heap' = heap /\ log' = log /\ cloned' = cloned)]_vars

C3_Witness ==
  /\ Searched
  /\ Len(heap[ret.self].hosts) = 2
  /\ heap[ret.self].hosts[1] # heap[ret.self].hosts[2]
  /\ Matches = {1, 2}
  /\ ret.val = heap[ret.self].hosts[1]

\* the items the calls of op on object o were given, in call order
Passed(o, op) ==
  LET calls == SelectSeq(log[o], LAMBDA e : e[1] = op)
  IN  [i \in DOMAIN calls |-> calls[i][2]]

\* each collection is what its add operation was passed, in call order
C9_Logged ==
  \A o \in DOMAIN log :
    /\ heap[o].kind = "Network" => heap[o].hosts = Passed(o, "add_host")
    /\ heap[o].kind = "Host" =>
         /\ heap[o].addrs = Passed(o, "add_addr")
         /\ heap[o].hw = Passed(o, "add_hw")
    /\ heap[o].kind = "Disk" => heap[o].parts = Passed(o, "add_part")

\* the first line of each child, in order, is that child's own line
C9_RenderOrder ==
  \A n \in DOMAIN heap :
    LET lines == _render(heap, n, <<>>, TRUE)
        kids == Kids(heap, n)
        col == IF heap[n].kind = "Network" THEN 0 ELSE 2
    IN  \A k \in DOMAIN kids :
          BodyAt(lines[KidStart(heap, n, k)], col) =
            (IF kids[k].node = None THEN kids[k].text
             ELSE BodyAt(_render(heap, kids[k].node, <<>>, TRUE)[1], 0))

\* the two lists of an object and its scalar attributes
Lists(o) == <<IF o.kind = "Host" THEN o.addrs ELSE <<>>, Children(o)>>

Scalars(o) ==
  CASE o.kind = "Network" -> <<o.kind, o.title>>
    [] o.kind = "Host" -> <<o.kind, o.name>>
    [] o.kind = "Disk" -> <<o.kind, o.gib>>
    [] o.kind = "Partition" -> <<o.kind, o.index, o.gib, o.role>>
    [] o.kind = "Cpu" -> <<o.kind, o.cores, o.mhz>>
    [] o.kind = "Memory" -> <<o.kind, o.mib>>

\* a step only appends, and to one collection at a time
C9_Step ==
  LET grown == {p \in (DOMAIN heap) \X {1, 2} :
                  Lists(heap'[p[1]])[p[2]] # Lists(heap[p[1]])[p[2]]}
  IN  /\ DOMAIN heap \subseteq DOMAIN heap'
      /\ \A o \in DOMAIN heap, f \in {1, 2} :
           LET old == Lists(heap[o])[f]
               new == Lists(heap'[o])[f]
           IN  \/ new = old
               \/ Len(new) = Len(old) + 1 /\ SubSeq(new, 1, Len(old)) = old
      /\ grown # {} =>
           /\ Cardinality(grown) = 1
           /\ DOMAIN heap' = DOMAIN heap
           /\ \A o \in DOMAIN heap : Scalars(heap'[o]) = Scalars(heap[o])

(***************************************************************************)
(* C9  Insertion order.  Each collection of an object is the sequence of   *)
(* the items passed to its add operation, in call order; a step never      *)
(* removes or reorders an entry, and a step that changes a collection      *)
(* appends one entry to one collection of one object and changes nothing   *)
(* else; the children of a node are rendered in the order of its           *)
(* collections.                                                            *)
(***************************************************************************)
C9_InsertionOrder ==
  /\ [](C9_Logged /\ C9_RenderOrder)
  /\ [][C9_Step]_vars

C9_Witness ==
  \E n \in OfKind("Network"), h \in OfKind("Host") :
    /\ n \in DOMAIN log
    /\ h \in DOMAIN log
    /\ Len(log[n]) = 2
    /\ heap[n].hosts[1] # heap[n].hosts[2]
    /\ heap[n].hosts[2] = h

\* the list entries that hold node c
Holders(c) ==
  {p \in UNION {{<<o, i>> : i \in DOMAIN Children(heap[o])} : o \in DOMAIN heap} :
     Children(heap[p[1]])[p[2]] = c}

(***************************************************************************)
(* C4  Single ownership.  In every state reached by constructions, adds    *)
(* and clones, no node is held twice - by two collections or twice by one  *)
(* - and no node is its own ancestor.                                      *)
(***************************************************************************)
C4_SingleOwner ==
  \A c \in DOMAIN heap :
    /\ Cardinality(Holders(c)) <= 1
    /\ \A k \in Range(Children(heap[c])) : c \notin Reach(heap, k)

\* a step that changes one of the two trees leaves the other as it was
C1_Step ==
  (cloned # <<>> /\ cloned' = cloned) =>
    \A side \in {1, 2} :
      LET mine == Reach(heap, cloned[side])
          other == Reach(heap, cloned[3 - side])
      IN  (\E o \in mine : heap'[o] # heap[o]) =>
            (\A o \in other : heap'[o] = heap[o])

(***************************************************************************)
(* C1  Clone independence.  After M = N.clone(), a step that changes a     *)
(* node reachable from M - a scalar reassigned, an entry appended - leaves *)
(* every node reachable from N as it was, and the other way round.         *)
(***************************************************************************)
C1_CloneIndependence == [][C1_Step]_vars

====
